---------------------------- MODULE Spec2Model ----------------------------
(***************************************************************************)
(* A model of src/generate_data.py: the synthetic PII utterance generator.  *)
(*                                                                         *)
(* Every Python string is modelled as the tuple of its characters, so that *)
(* str.find, str.replace, len and slicing are computed on character        *)
(* offsets exactly as the program computes them.                           *)
(*                                                                         *)
(* The `random` module is a deterministic generator: random.seed(42) puts  *)
(* it in one state, and every draw returns a function of the state and     *)
(* advances it.  The Mersenne Twister itself is not modelled; rng is the   *)
(* generator's state, NextRng its transition, and the state that seed 42   *)
(* leads to (seedState) ranges over a bounded set.                         *)
(*                                                                         *)
(* required_entities is a Python set of str.  Its iteration order is the   *)
(* order of the slots of its hash table, and str hashes are keyed by the   *)
(* per-process PYTHONHASHSEED, so the program does not fix the order.      *)
(* hashSeed is the per-process key and StrHash the keyed hash.             *)
(***************************************************************************)
EXTENDS Integers, Sequences, FiniteSets, TLC

\* ---------------------------------------------------------------- bounds
\* largest requested num_train / num_dev / num_test
MaxTrain == 2
MaxDev == 1
MaxTest == 1
\* generator states that random.seed(42) may lead to: 0..MaxSeedState
MaxSeedState == 4
\* per-process hash keys: 0..MaxHashSeed
MaxHashSeed == 1

\* ------------------------------------------------------------ vocabularies
\* FIRST_NAMES, each string as its tuple of characters
FIRST_NAMES ==
  <<
    <<"r","a","m","e","s","h">>,
    <<"p","r","i","y","a">>,
    <<"j","o","h","n">>,
    <<"s","a","r","a","h">>,
    <<"k","u","m","a","r">>,
    <<"r","a","v","i">>,
    <<"i","s","h","a">>,
    <<"a","m","i","t">>,
    <<"n","i","k","i","t","a">>,
    <<"a","r","j","u","n">>,
    <<"d","i","v","y","a">>,
    <<"r","o","h","i","t">>,
    <<"n","e","h","a">>,
    <<"r","a","j">>,
    <<"p","o","o","j","a">>,
    <<"a","n","i","l">>,
    <<"m","a","y","a">>,
    <<"d","a","v","i","d">>,
    <<"e","m","m","a">>,
    <<"s","o","p","h","i","a">>,
    <<"j","a","m","e","s">>,
    <<"m","i","c","h","a","e","l">>,
    <<"a","n","n","a">>,
    <<"l","a","u","r","a">>,
    <<"v","i","k","r","a","m">>,
    <<"a","n","a","n","y","a">>,
    <<"s","a","n","j","a","y">>,
    <<"m","e","e","r","a">>,
    <<"v","i","k","a","s">>,
    <<"s","n","e","h","a">>
  >>

\* LAST_NAMES
LAST_NAMES ==
  <<
    <<"s","h","a","r","m","a">>,
    <<"p","a","t","e","l">>,
    <<"s","i","n","g","h">>,
    <<"k","u","m","a","r">>,
    <<"r","e","d","d","y">>,
    <<"g","u","p","t","a">>,
    <<"b","r","o","w","n">>,
    <<"s","m","i","t","h">>,
    <<"j","o","h","n","s","o","n">>,
    <<"w","i","l","l","i","a","m","s">>,
    <<"j","o","n","e","s">>,
    <<"m","i","l","l","e","r">>,
    <<"d","a","v","i","s">>,
    <<"w","i","l","s","o","n">>,
    <<"m","o","o","r","e">>,
    <<"t","a","y","l","o","r">>,
    <<"a","n","d","e","r","s","o","n">>,
    <<"t","h","o","m","a","s">>,
    <<"j","a","c","k","s","o","n">>,
    <<"w","h","i","t","e">>,
    <<"k","h","a","n","n","a">>,
    <<"d","e","s","a","i">>,
    <<"v","e","r","m","a">>,
    <<"m","i","s","r","a">>,
    <<"c","h","o","p","r","a">>,
    <<"n","a","i","r">>,
    <<"i","y","e","r">>
  >>

\* CITIES
CITIES ==
  <<
    <<"m","u","m","b","a","i">>,
    <<"d","e","l","h","i">>,
    <<"b","a","n","g","a","l","o","r","e">>,
    <<"h","y","d","e","r","a","b","a","d">>,
    <<"p","u","n","e">>,
    <<"k","o","l","k","a","t","a">>,
    <<"h","o","u","s","t","o","n">>,
    <<"n","e","w"," ","y","o","r","k">>,
    <<"s","a","n"," ","f","r","a","n","c","i","s","c","o">>,
    <<"s","e","a","t","t","l","e">>,
    <<"b","o","s","t","o","n">>,
    <<"l","o","n","d","o","n">>,
    <<"p","a","r","i","s">>,
    <<"d","u","b","a","i">>,
    <<"s","i","n","g","a","p","o","r","e">>,
    <<"t","o","k","y","o">>,
    <<"s","y","d","n","e","y">>,
    <<"t","o","r","o","n","t","o">>,
    <<"c","h","i","c","a","g","o">>,
    <<"c","h","e","n","n","a","i">>,
    <<"a","h","m","e","d","a","b","a","d">>,
    <<"c","h","a","n","d","i","g","a","r","h">>,
    <<"l","u","c","k","n","o","w">>,
    <<"j","a","i","p","u","r">>
  >>

\* LOCATIONS
LOCATIONS ==
  <<
    <<"i","n","d","i","a">>,
    <<"u","n","i","t","e","d"," ","s","t","a","t","e","s">>,
    <<"u","n","i","t","e","d"," ","k","i","n","g","d","o","m">>,
    <<"f","r","a","n","c","e">>,
    <<"g","e","r","m","a","n","y">>,
    <<"j","a","p","a","n">>,
    <<"c","a","n","a","d","a">>,
    <<"a","u","s","t","r","a","l","i","a">>,
    <<"b","r","a","z","i","l">>,
    <<"m","e","x","i","c","o">>,
    <<"c","a","l","i","f","o","r","n","i","a">>,
    <<"t","e","x","a","s">>,
    <<"f","l","o","r","i","d","a">>,
    <<"n","e","w"," ","y","o","r","k">>,
    <<"a","l","a","s","k","a">>,
    <<"h","a","w","a","i","i">>,
    <<"s","c","o","t","l","a","n","d">>,
    <<"i","r","e","l","a","n","d">>,
    <<"n","e","w"," ","z","e","a","l","a","n","d">>,
    <<"s","o","u","t","h"," ","a","f","r","i","c","a">>,
    <<"e","u","r","o","p","e">>,
    <<"a","s","i","a">>
  >>

\* EMAIL_DOMAINS
EMAIL_DOMAINS ==
  <<
    <<"g","m","a","i","l">>,
    <<"y","a","h","o","o">>,
    <<"h","o","t","m","a","i","l">>,
    <<"o","u","t","l","o","o","k">>,
    <<"m","i","c","r","o","s","o","f","t">>,
    <<"a","p","p","l","e">>,
    <<"g","o","o","g","l","e">>,
    <<"f","a","c","e","b","o","o","k">>,
    <<"a","m","a","z","o","n">>,
    <<"n","e","t","f","l","i","x">>,
    <<"u","b","e","r">>,
    <<"a","i","r","b","n","b">>
  >>

\* DIGIT_WORDS, indexed by digit + 1
DIGIT_WORDS ==
  <<
    <<"o","h">>,
    <<"o","n","e">>,
    <<"t","w","o">>,
    <<"t","h","r","e","e">>,
    <<"f","o","u","r">>,
    <<"f","i","v","e">>,
    <<"s","i","x">>,
    <<"s","e","v","e","n">>,
    <<"e","i","g","h","t">>,
    <<"n","i","n","e">>
  >>

\* the tld list of generate_email
tlds ==
  <<
    <<"c","o","m">>,
    <<"o","r","g">>,
    <<"n","e","t">>,
    <<"e","d","u">>,
    <<"c","o">>,
    <<"i","n">>
  >>

\* month_names of generate_date
month_names ==
  <<
    <<"j","a","n","u","a","r","y">>,
    <<"f","e","b","r","u","a","r","y">>,
    <<"m","a","r","c","h">>,
    <<"a","p","r","i","l">>,
    <<"m","a","y">>,
    <<"j","u","n","e">>,
    <<"j","u","l","y">>,
    <<"a","u","g","u","s","t">>,
    <<"s","e","p","t","e","m","b","e","r">>,
    <<"o","c","t","o","b","e","r">>,
    <<"n","o","v","e","m","b","e","r">>,
    <<"d","e","c","e","m","b","e","r">>
  >>

\* templates of create_utterance
templates ==
  <<
    <<"c","o","n","t","a","c","t"," ","m","e"," ","a","t"," ","{","E","M","A","I","L","}"," ","o","r"," ","{","P","H","O","N","E","}">>,
    <<"m","y"," ","n","a","m","e"," ","i","s"," ","{","P","E","R","S","O","N","_","N","A","M","E","}"," ","a","n","d"," ","i"," ","w","o","r","k"," ","i","n"," ","{","L","O","C","A","T","I","O","N","}">>,
    <<"t","h","e"," ","c","r","e","d","i","t"," ","c","a","r","d"," ","n","u","m","b","e","r"," ","i","s"," ","{","C","R","E","D","I","T","_","C","A","R","D","}">>,
    <<"s","e","n","d"," ","p","a","y","m","e","n","t"," ","t","o"," ","{","E","M","A","I","L","}"," ","f","r","o","m"," ","c","i","t","y"," ","{","C","I","T","Y","}">>,
    <<"c","a","l","l"," ","m","e"," ","a","t"," ","{","P","H","O","N","E","}"," ","o","r"," ","e","m","a","i","l"," ","{","E","M","A","I","L","}">>,
    <<"m","y"," ","c","a","r","d"," ","{","C","R","E","D","I","T","_","C","A","R","D","}"," ","e","x","p","i","r","e","s"," ","o","n"," ","{","D","A","T","E","}">>,
    <<"i"," ","l","i","v","e"," ","i","n"," ","{","C","I","T","Y","}"," ","w","h","i","c","h"," ","i","s"," ","i","n"," ","{","L","O","C","A","T","I","O","N","}">>,
    <<"{","P","E","R","S","O","N","_","N","A","M","E","}"," ","f","r","o","m"," ","{","L","O","C","A","T","I","O","N","}"," ","c","a","n"," ","b","e"," ","r","e","a","c","h","e","d"," ","a","t"," ","{","P","H","O","N","E","}">>,
    <<"t","h","e"," ","e","v","e","n","t"," ","i","s"," ","o","n"," ","{","D","A","T","E","}"," ","i","n"," ","{","L","O","C","A","T","I","O","N","}">>,
    <<"c","h","a","r","g","e","d"," ","t","o"," ","c","a","r","d"," ","{","C","R","E","D","I","T","_","C","A","R","D","}"," ","f","r","o","m"," ","{","C","I","T","Y","}">>,
    <<"m","y"," ","e","m","a","i","l"," ","i","s"," ","{","E","M","A","I","L","}"," ","a","n","d"," ","p","h","o","n","e"," ","i","s"," ","{","P","H","O","N","E","}">>,
    <<"{","P","E","R","S","O","N","_","N","A","M","E","}"," ","w","o","r","k","s"," ","i","n"," ","{","C","I","T","Y","}">>,
    <<"v","i","s","i","t"," ","u","s"," ","i","n"," ","{","L","O","C","A","T","I","O","N","}"," ","o","r"," ","c","a","l","l"," ","{","P","H","O","N","E","}">>,
    <<"m","e","e","t","i","n","g"," ","d","a","t","e"," ","i","s"," ","{","D","A","T","E","}"," ","w","i","t","h"," ","{","P","E","R","S","O","N","_","N","A","M","E","}">>,
    <<"b","i","l","l"," ","t","o"," ","{","C","R","E","D","I","T","_","C","A","R","D","}"," ","a","t"," ","{","C","I","T","Y","}">>
  >>

\* the keys of the generators dict, in insertion order
generators ==
  <<
    <<"E","M","A","I","L">>,
    <<"P","H","O","N","E">>,
    <<"P","E","R","S","O","N","_","N","A","M","E">>,
    <<"L","O","C","A","T","I","O","N">>,
    <<"C","R","E","D","I","T","_","C","A","R","D">>,
    <<"D","A","T","E">>,
    <<"C","I","T","Y">>
  >>

\* ------------------------------------------------------- string primitives
Range(s) == { s[n] : n \in DOMAIN s }

RECURSIVE Concat(_)
\* "".join(parts)
Concat(parts) ==
  IF parts = <<>> THEN <<>> ELSE Head(parts) \o Concat(Tail(parts))

RECURSIVE Join(_, _)
\* sep.join(parts)
Join(sep, parts) ==
  IF parts = <<>> THEN <<>>
  ELSE IF Len(parts) = 1 THEN parts[1]
  ELSE parts[1] \o sep \o Join(sep, Tail(parts))

\* text.find(pat): the lowest 0-based index at which pat occurs, or -1
find(text, pat) ==
  LET hits == { n \in 0..(Len(text) - Len(pat)) :
                  SubSeq(text, n + 1, n + Len(pat)) = pat }
  IN  IF hits = {} THEN -1
      ELSE CHOOSE n \in hits : \A m \in hits : n <= m

RECURSIVE replace(_, _, _, _)
\* text.replace(old, new, count) for a non-empty old; count = -1 replaces all
replace(text, old, new, count) ==
  LET idx == find(text, old)
  IN  IF count = 0 \/ idx = -1 THEN text
      ELSE SubSeq(text, 1, idx) \o new
           \o replace(SubSeq(text, idx + Len(old) + 1, Len(text)), old, new,
                      IF count = -1 THEN -1 ELSE count - 1)

DecimalDigits == <<"0","1","2","3","4","5","6","7","8","9">>

RECURSIVE str(_)
\* str(n) for an int n >= 0
str(n) ==
  IF n < 10 THEN <<DecimalDigits[n + 1]>>
  ELSE str(n \div 10) \o <<DecimalDigits[(n % 10) + 1]>>

\* int(d) for a one-character digit string
int(d) == CHOOSE v \in 0..9 : DecimalDigits[v + 1] = d

\* f"{n:05d}"
Format05d(n) ==
  LET s == str(n)
  IN  IF Len(s) >= 5 THEN s ELSE [k \in 1..(5 - Len(s)) |-> "0"] \o s

\* ------------------------------------------------------------ random module
VARIABLES
  num_train, num_dev, num_test,  \* the arguments of generate_dataset
  seedState,        \* the generator state random.seed(42) leads to
  hashSeed,         \* the process's PYTHONHASHSEED
  rng,              \* the state of the random module's generator
  pc,               \* the position in generate_dataset / create_utterance
  split,            \* index into the list of splits of the outer for loop
  i,                \* the inner loop's i
  data,             \* the list being built for the current split
  datasets,         \* the dict returned by generate_dataset
  template, required_entities, replacements, text, entities,
                    \* the locals of create_utterance; required_entities
                    \* is held as the sequence in which the set iterates
  pos,              \* position of the for loops over required_entities
  previous,         \* the datasets returned by the process's previous run
  second            \* TRUE in the second run of the program

vars == <<num_train, num_dev, num_test, seedState, hashSeed, rng, pc, split,
          i, data, datasets, template, required_entities, replacements,
          text, entities, pos, previous, second>>

\* the generator has the states 0..RngModulus-1
RngModulus == 103

RngStates == 0..(RngModulus - 1)

\* one step of the generator
NextRng(s) == (53 * s + 18) % RngModulus

RECURSIVE StepN(_, _)
StepN(s, n) == IF n = 0 THEN s ELSE StepN(NextRng(s), n - 1)

\* random.randint(a, b) drawn in state s
randint(s, a, b) == a + (s % (b - a + 1))

\* random.choice(seq) drawn in state s
choice(s, seq) == seq[(s % Len(seq)) + 1]

\* random.random() drawn in state s, in tenths
random(s) == s % 10

\* -------------------------------------------------------------- generators
SP == <<" ">>

digits_to_spoken(digits, style) ==
  IF style = "individual"
  THEN Join(SP, [n \in 1..Len(digits) |-> DIGIT_WORDS[int(digits[n]) + 1]])
  ELSE IF style = "paired"
  THEN Join(SP, [n \in 1..Len(digits) |-> DIGIT_WORDS[int(digits[n]) + 1]])
  ELSE Join(SP, [n \in 1..Len(digits) |-> DIGIT_WORDS[int(digits[n]) + 1]])

\* each generator, called in state s: the value returned and the state after
generate_cc(s) ==
  LET cc    == Concat([n \in 1..16 |-> str(randint(StepN(s, n - 1), 0, 9))])
      style == choice(StepN(s, 16), <<"individual", "paired">>)
  IN  [value |-> digits_to_spoken(cc, style), rng |-> StepN(s, 17)]

generate_phone(s) ==
  LET phone == Concat([n \in 1..10 |-> str(randint(StepN(s, n - 1), 0, 9))])
  IN  [value |-> digits_to_spoken(phone, "individual"), rng |-> StepN(s, 10)]

\* a variant that writes the address with its punctuation
generate_emailWritten(s) ==
  LET name   == choice(s, FIRST_NAMES)
      domain == choice(StepN(s, 1), EMAIL_DOMAINS)
      tld    == choice(StepN(s, 2), tlds)
  IN  [value |-> name \o <<"@">> \o domain \o <<".">> \o tld,
       rng |-> StepN(s, 3)]

generate_email(s) ==
  LET name   == choice(s, FIRST_NAMES)
      domain == choice(StepN(s, 1), EMAIL_DOMAINS)
      tld    == choice(StepN(s, 2), tlds)
  IN  [value |-> name \o <<" ","a","t"," ">> \o domain
                 \o <<" ","d","o","t"," ">> \o tld,
       rng |-> StepN(s, 3)]

generate_person_name(s) ==
  [value |-> choice(s, FIRST_NAMES) \o SP \o choice(StepN(s, 1), LAST_NAMES),
   rng |-> StepN(s, 2)]

generate_date(s) ==
  LET day   == str(randint(s, 1, 28))
      month == choice(StepN(s, 1), month_names)
      year  == str(randint(StepN(s, 2), 2015, 2024))
      fmt   == choice(StepN(s, 3),
                 << month \o SP \o day \o SP \o year,
                    day \o SP \o month \o SP \o year,
                    month \o <<" ","t","h","e"," ">> \o day \o SP \o year >>)
  IN  [value |-> fmt, rng |-> StepN(s, 4)]

generate_city(s) == [value |-> choice(s, CITIES), rng |-> NextRng(s)]

\* a variant that draws from the wrong vocabulary
generate_locationFromCities(s) ==
  [value |-> choice(s, CITIES), rng |-> NextRng(s)]

generate_location(s) == [value |-> choice(s, LOCATIONS), rng |-> NextRng(s)]

\* generators[entity_type]() called in state s
CallGenerator(entity_type, s) ==
  CASE entity_type = generators[1] -> generate_email(s)
    [] entity_type = generators[2] -> generate_phone(s)
    [] entity_type = generators[3] -> generate_person_name(s)
    [] entity_type = generators[4] -> generate_location(s)
    [] entity_type = generators[5] -> generate_cc(s)
    [] entity_type = generators[6] -> generate_date(s)
    [] entity_type = generators[7] -> generate_city(s)

\* --------------------------------------------------------- create_utterance
\* "{" + key + "}"
Placeholder(key) == <<"{">> \o key \o <<"}">>

\* the keys for which `"{" + key + "}" in template` holds
RequiredEntities(tmpl) ==
  { key \in Range(generators) : find(tmpl, Placeholder(key)) # -1 }

KeyIndex(key) == CHOOSE n \in DOMAIN generators : generators[n] = key

\* the slot of a key in the 8-slot table of a small set: hash(key) mod 8,
\* with hash keyed by the process's hash seed
StrHash(key, seed) == (KeyIndex(key) - 1 - seed) % 8

RECURSIVE SlotOrder(_, _)
\* the elements of set S in increasing slot order
SlotOrder(S, seed) ==
  IF S = {} THEN <<>>
  ELSE LET first == CHOOSE x \in S :
                      \A y \in S : StrHash(x, seed) <= StrHash(y, seed)
       IN  <<first>> \o SlotOrder(S \ {first}, seed)

\* the order in which `for entity_type in required_entities` iterates
IterationOrder(S) == SlotOrder(S, hashSeed)

\* a variant whose end is taken from the placeholder, not from the value
SpanOverPlaceholder(idx, value, entity_type) ==
  [start |-> idx, end |-> idx + Len(Placeholder(entity_type)),
   label |-> entity_type]

\* the dict appended to entities for a placeholder found at idx
Span(idx, value, entity_type) ==
  [start |-> idx, end |-> idx + Len(value), label |-> entity_type]

\* text after the two noise steps, the coins drawn in states s and NextRng(s)
Noise(txt, s) ==
  LET t1 == IF random(s) < 3 THEN replace(txt, <<".">>, <<>>, -1) ELSE txt
  IN  IF random(NextRng(s)) < 2 THEN replace(t1, <<",">>, <<>>, -1) ELSE t1

\* --------------------------------------------------------- generate_dataset
SplitNames == << <<"t","r","a","i","n">>, <<"d","e","v">>, <<"t","e","s","t">> >>

SplitSize(n) == <<num_train, num_dev, num_test>>[n]

\* a variant that numbers from i instead of i + 1
RecordIdZeroBased(dataset_name, n) == dataset_name \o <<"_">> \o Format05d(n)

\* f"{dataset_name}_{i+1:05d}"
RecordId(dataset_name, n) == dataset_name \o <<"_">> \o Format05d(n + 1)

\* a variant of the test branch that keeps the entities
TestRecordWithEntities(n, utt_text) ==
  [id |-> <<"t","e","s","t","_">> \o Format05d(n + 1), text |-> utt_text,
   entities |-> entities]

\* utt_out of the test branch
TestRecord(n, utt_text) ==
  [id |-> <<"t","e","s","t","_">> \o Format05d(n + 1), text |-> utt_text]

\* utt_out of the else branch
LabelledRecord(dataset_name, n, utt_text, utt_entities) ==
  [id |-> RecordId(dataset_name, n), text |-> utt_text,
   entities |-> utt_entities]

Init ==
  /\ num_train \in 0..MaxTrain
  /\ num_dev \in 0..MaxDev
  /\ num_test \in 0..MaxTest
  /\ seedState \in 0..MaxSeedState
  /\ hashSeed \in 0..MaxHashSeed
  /\ rng = 0
  /\ pc = "seed"
  /\ split = 1
  /\ i = 0
  /\ data = <<>>
  /\ datasets = <<>>
  /\ template = <<>>
  /\ required_entities = <<>>
  /\ replacements = <<>>
  /\ text = <<>>
  /\ entities = <<>>
  /\ pos = 1
  /\ previous = <<>>
  /\ second = FALSE

\* random.seed(42); datasets = {}
Seed ==
  /\ pc = "seed"
  /\ rng' = seedState
  /\ datasets' = <<>>
  /\ split' = 1
  /\ pc' = "split"
  /\ UNCHANGED <<num_train, num_dev, num_test, seedState, hashSeed, i, data,
                 template, required_entities, replacements, text, entities,
                 pos, previous, second>>

\* the outer for loop takes its next (dataset_name, size); data = []
BeginSplit ==
  /\ pc = "split"
  /\ split <= Len(SplitNames)
  /\ data' = <<>>
  /\ i' = 0
  /\ pc' = "loop"
  /\ UNCHANGED <<num_train, num_dev, num_test, seedState, hashSeed, rng,
                 split, datasets, template, required_entities, replacements,
                 text, entities, pos, previous, second>>

\* utt = create_utterance(), up to replacements = {}
CallCreateUtterance ==
  /\ pc = "loop"
  /\ i < SplitSize(split)
  /\ template' = choice(rng, templates)
  /\ rng' = NextRng(rng)
  /\ required_entities' = IterationOrder(RequiredEntities(template'))
  /\ replacements' = <<>>
  /\ pos' = 1
  /\ pc' = "generate"
  /\ UNCHANGED <<num_train, num_dev, num_test, seedState, hashSeed, split, i,
                 data, datasets, text, entities, previous, second>>

\* one iteration of: for entity_type in required_entities:
\*                       replacements[entity_type] = generators[entity_type]()
GenerateValue ==
  /\ pc = "generate"
  /\ pos <= Len(required_entities)
  /\ LET entity_type == required_entities[pos]
         r == CallGenerator(entity_type, rng)
     IN  /\ replacements' = (entity_type :> r.value) @@ replacements
         /\ rng' = r.rng
  /\ pos' = pos + 1
  /\ UNCHANGED <<num_train, num_dev, num_test, seedState, hashSeed, pc, split,
                 i, data, datasets, template, required_entities, text,
                 entities, previous, second>>

\* text = template; entities = []
BeginSubstitution ==
  /\ pc = "generate"
  /\ pos > Len(required_entities)
  /\ text' = template
  /\ entities' = <<>>
  /\ pos' = 1
  /\ pc' = "substitute"
  /\ UNCHANGED <<num_train, num_dev, num_test, seedState, hashSeed, rng, split,
                 i, data, datasets, template, required_entities, replacements,
                 previous, second>>

\* a variant that tests `if idx:` instead of `if idx != -1:`
SubstituteIfTruthy ==
  /\ pc = "substitute"
  /\ pos <= Len(required_entities)
  /\ LET entity_type == required_entities[pos]
         value       == replacements[entity_type]
         placeholder == Placeholder(entity_type)
         idx         == find(text, placeholder)
     IN  IF idx # 0
         THEN /\ text' = replace(text, placeholder, value, 1)
              /\ entities' = Append(entities, Span(idx, value, entity_type))
         ELSE UNCHANGED <<text, entities>>
  /\ pos' = pos + 1
  /\ UNCHANGED <<num_train, num_dev, num_test, seedState, hashSeed, rng, pc,
                 split, i, data, datasets, template, required_entities,
                 replacements, previous, second>>

\* a variant that looks the placeholder up in the template, not in the text
SubstituteFromTemplate ==
  /\ pc = "substitute"
  /\ pos <= Len(required_entities)
  /\ LET entity_type == required_entities[pos]
         value       == replacements[entity_type]
         placeholder == Placeholder(entity_type)
         idx         == find(template, placeholder)
     IN  IF idx # -1
         THEN /\ text' = replace(text, placeholder, value, 1)
              /\ entities' = Append(entities, Span(idx, value, entity_type))
         ELSE UNCHANGED <<text, entities>>
  /\ pos' = pos + 1
  /\ UNCHANGED <<num_train, num_dev, num_test, seedState, hashSeed, rng, pc,
                 split, i, data, datasets, template, required_entities,
                 replacements, previous, second>>

\* one iteration of the loop that replaces placeholders and tracks positions
Substitute ==
  /\ pc = "substitute"
  /\ pos <= Len(required_entities)
  /\ LET entity_type == required_entities[pos]
         value       == replacements[entity_type]
         placeholder == Placeholder(entity_type)
         idx         == find(text, placeholder)
     IN  IF idx # -1
         THEN /\ text' = replace(text, placeholder, value, 1)
              /\ entities' = Append(entities, Span(idx, value, entity_type))
         ELSE UNCHANGED <<text, entities>>
  /\ pos' = pos + 1
  /\ UNCHANGED <<num_train, num_dev, num_test, seedState, hashSeed, rng, pc,
                 split, i, data, datasets, template, required_entities,
                 replacements, previous, second>>

\* the substitution loop is over: pc = "substitute" and nothing is left
Substituted == pc = "substitute" /\ pos > Len(required_entities)

\* the noise step and the return of create_utterance
AddNoise ==
  /\ Substituted
  /\ text' = Noise(text, rng)
  /\ rng' = StepN(rng, 2)
  /\ pc' = "return"
  /\ UNCHANGED <<num_train, num_dev, num_test, seedState, hashSeed, split, i,
                 data, datasets, template, required_entities, replacements,
                 entities, pos, previous, second>>

\* dataset_name == "test": the record has no entities field
AppendTest ==
  /\ pc = "return"
  /\ SplitNames[split] = <<"t","e","s","t">>
  /\ data' = Append(data, TestRecord(i, text))
  /\ i' = i + 1
  /\ pc' = "loop"
  /\ UNCHANGED <<num_train, num_dev, num_test, seedState, hashSeed, rng, split,
                 datasets, template, required_entities, replacements, text,
                 entities, pos, previous, second>>

\* the else branch: id, text and entities
AppendLabelled ==
  /\ pc = "return"
  /\ SplitNames[split] # <<"t","e","s","t">>
  /\ data' = Append(data, LabelledRecord(SplitNames[split], i, text, entities))
  /\ i' = i + 1
  /\ pc' = "loop"
  /\ UNCHANGED <<num_train, num_dev, num_test, seedState, hashSeed, rng, split,
                 datasets, template, required_entities, replacements, text,
                 entities, pos, previous, second>>

\* range(size) is exhausted: datasets[dataset_name] = data
FinishSplit ==
  /\ pc = "loop"
  /\ i >= SplitSize(split)
  /\ datasets' = (SplitNames[split] :> data) @@ datasets
  /\ split' = split + 1
  /\ pc' = "split"
  /\ UNCHANGED <<num_train, num_dev, num_test, seedState, hashSeed, rng, i,
                 data, template, required_entities, replacements, text,
                 entities, pos, previous, second>>

\* return datasets
Return ==
  /\ pc = "split"
  /\ split > Len(SplitNames)
  /\ pc' = "done"
  /\ UNCHANGED <<num_train, num_dev, num_test, seedState, hashSeed, rng, split,
                 i, data, datasets, template, required_entities, replacements,
                 text, entities, pos, previous, second>>

Next ==
  \/ Seed
  \/ BeginSplit
  \/ CallCreateUtterance
  \/ GenerateValue
  \/ BeginSubstitution
  \/ Substitute
  \/ AddNoise
  \/ AppendTest
  \/ AppendLabelled
  \/ FinishSplit
  \/ Return

Spec == Init /\ [][Next]_vars

\* The program is run a second time with the same arguments: a new process,
\* so a new hash seed, and the same random.seed(42).
Rerun ==
  /\ pc = "done"
  /\ ~second
  /\ second' = TRUE
  /\ previous' = datasets
  /\ hashSeed' \in 0..MaxHashSeed
  /\ pc' = "seed"
  /\ UNCHANGED <<num_train, num_dev, num_test, seedState, rng, split, i, data,
                 datasets, template, required_entities, replacements, text,
                 entities, pos>>

NextTwoRuns == Next \/ Rerun

SpecTwoRuns == Init /\ [][NextTwoRuns]_vars

\* ------------------------------------------------------------------ claims
K_EMAIL == generators[1]
K_PHONE == generators[2]
K_PERSON_NAME == generators[3]
K_LOCATION == generators[4]
K_CREDIT_CARD == generators[5]
K_DATE == generators[6]
K_CITY == generators[7]

\* create_utterance has left its substitution loop (before or after noise)
Produced == Substituted \/ pc = "return"

\* the offset of key's placeholder in the template
TemplatePos(key) == find(template, Placeholder(key))

\* position of key in the iteration order
OrderIndex(key) ==
  CHOOSE n \in DOMAIN required_entities : required_entities[n] = key

\* by how much substituting key lengthens the text
Delta(key) == Len(replacements[key]) - Len(Placeholder(key))

RECURSIVE SumDelta(_)
SumDelta(S) ==
  IF S = {} THEN 0
  ELSE LET y == CHOOSE y \in S : TRUE IN Delta(y) + SumDelta(S \ {y})

\* the entities whose placeholder lies to the left of key's in the template
LeftOf(key) ==
  { y \in Range(required_entities) : TemplatePos(y) < TemplatePos(key) }

\* those of them that are substituted after key
LeftLater(key) == { y \in LeftOf(key) : OrderIndex(y) > OrderIndex(key) }

\* where key's value lies in the text once every placeholder is substituted
TruePos(key) == TemplatePos(key) + SumDelta(LeftOf(key))

\* txt[start:end] for 0 <= start <= end
Slice(txt, start, end) ==
  SubSeq(txt, start + 1, IF end > Len(txt) THEN Len(txt) ELSE end)

\* the span's slice of the current text is the value generated for its label
SpanCorrect(span) ==
  Slice(text, span.start, span.end) = replacements[span.label]

\* C1: once all substitutions of an utterance are done and before noise is
\* added, every emitted span's slice text[start:end] is the value generated
\* for the span's label, whatever the iteration order of required_entities.
C1_SpansMatchValues ==
  Substituted => \A n \in DOMAIN entities : SpanCorrect(entities[n])

\* C2: the spans emitted for one utterance are pairwise non-overlapping.
C2_SpansDisjoint ==
  Produced =>
    \A m, n \in DOMAIN entities :
      m # n => \/ entities[m].end <= entities[n].start
               \/ entities[n].end <= entities[m].start

CreditCardPrefix ==
  <<"t","h","e"," ","c","r","e","d","i","t"," ","c","a","r","d"," ",
    "n","u","m","b","e","r"," ","i","s"," ">>

CreditCardTemplate == CreditCardPrefix \o Placeholder(K_CREDIT_CARD)

\* C3 as stated: with the template "the credit card number is {CREDIT_CARD}"
\* and value v, the one entity is {start 25, end 25 + len(v), CREDIT_CARD}
\* and text is "the credit card number is " + v.
C3_StartAt25 ==
  (Produced /\ template = CreditCardTemplate) =>
    LET v == replacements[K_CREDIT_CARD]
    IN  /\ entities = <<[start |-> 25, end |-> 25 + Len(v),
                         label |-> K_CREDIT_CARD]>>
        /\ text = CreditCardPrefix \o v

\* C3 amended: the same with start 26 and end 26 + len(v); the prefix
\* "the credit card number is " has 26 characters.
C3_StartAt26 ==
  (Produced /\ template = CreditCardTemplate) =>
    LET v == replacements[K_CREDIT_CARD]
    IN  /\ entities = <<[start |-> 26, end |-> 26 + Len(v),
                         label |-> K_CREDIT_CARD]>>
        /\ text = CreditCardPrefix \o v

C3_Witness ==
  /\ pc = "return"
  /\ template = CreditCardTemplate
  /\ Len(entities) = 1
  /\ Cardinality({ n \in DOMAIN text : n > 26 /\ text[n] = " " }) = 15

\* C4: a second run of generate_dataset with the same seed and the same
\* requested sizes returns the records the first run returned.
C4_SameOutput == (pc = "done" /\ second) => datasets = previous

\* the strings generate_city / generate_location can return
CityValues == { generate_city(s).value : s \in RngStates }

LocationValues == { generate_location(s).value : s \in RngStates }

\* C5 as stated: no string generate_city can return is returned by
\* generate_location.
C5_Disjoint ==
  Produced =>
    /\ K_CITY \in DOMAIN replacements
         => replacements[K_CITY] \notin LocationValues
    /\ K_LOCATION \in DOMAIN replacements
         => replacements[K_LOCATION] \notin CityValues

NewYork == <<"n","e","w"," ","y","o","r","k">>

\* C5 amended: the only string both generate_city and generate_location can
\* return is "new york".
C5_OnlyNewYorkShared ==
  /\ CityValues \cap LocationValues = {NewYork}
  /\ Produced =>
       /\ K_CITY \in DOMAIN replacements
            => \/ replacements[K_CITY] \notin LocationValues
               \/ replacements[K_CITY] = NewYork
       /\ K_LOCATION \in DOMAIN replacements
            => \/ replacements[K_LOCATION] \notin CityValues
               \/ replacements[K_LOCATION] = NewYork

C5_Witness ==
  /\ pc = "return"
  /\ K_CITY \in DOMAIN replacements
  /\ K_LOCATION \in DOMAIN replacements
  /\ NewYork \in {replacements[K_CITY], replacements[K_LOCATION]}

\* C6: no record of the test split has an "entities" key and every record
\* of the train and dev splits has one.
C6_EntitiesKey ==
  \A name \in DOMAIN datasets :
    \A n \in DOMAIN datasets[name] :
      ("entities" \in DOMAIN datasets[name][n]) <=> (name # SplitNames[3])

C6_Witness ==
  /\ pc = "done"
  /\ \A n \in DOMAIN SplitNames :
       /\ SplitNames[n] \in DOMAIN datasets
       /\ Len(datasets[SplitNames[n]]) >= 1
  /\ \E n \in DOMAIN datasets[SplitNames[1]] :
       datasets[SplitNames[1]][n].entities # <<>>

RECURSIVE DecimalValue(_)
\* the number a string of decimal digits denotes
DecimalValue(s) ==
  IF s = <<>> THEN 0
  ELSE 10 * DecimalValue(SubSeq(s, 1, Len(s) - 1)) + int(s[Len(s)])

\* C7: when generate_dataset returns, each split S requested with size N
\* holds exactly N records, and the k-th has the id S, "_" and k written
\* with five digits, for k = 1..N.
C7_Ids ==
  pc = "done" =>
    \A n \in DOMAIN SplitNames :
      LET name == SplitNames[n]
          recs == datasets[name]
      IN  /\ Len(recs) = SplitSize(n)
          /\ \A k \in DOMAIN recs :
               /\ Len(recs[k].id) = Len(name) + 6
               /\ SubSeq(recs[k].id, 1, Len(name) + 1) = name \o <<"_">>
               /\ Range(SubSeq(recs[k].id, Len(name) + 2, Len(name) + 6))
                    \subseteq Range(DecimalDigits)
               /\ DecimalValue(SubSeq(recs[k].id, Len(name) + 2,
                                      Len(name) + 6)) = k

C7_Witness ==
  /\ pc = "done"
  /\ Len(datasets[SplitNames[1]]) = 2
  /\ Len(datasets[SplitNames[2]]) = 1
  /\ Len(datasets[SplitNames[3]]) = 1

\* the entity types whose marker occurs in a template, found character by
\* character: the names between a "{" and the next "}"
MarkersIn(tmpl) ==
  { SubSeq(tmpl, a + 1, b - 1) :
      <<a, b>> \in { p \in (DOMAIN tmpl) \X (DOMAIN tmpl) :
                       /\ p[1] < p[2]
                       /\ tmpl[p[1]] = "{"
                       /\ tmpl[p[2]] = "}"
                       /\ \A c \in (p[1] + 1)..(p[2] - 1) : tmpl[c] # "}" } }

\* C8: once the substitution loop is over, the text holds no placeholder
\* marker and exactly one span was emitted for each entity type the template
\* references.
C8_NoSkip ==
  Produced =>
    /\ \A key \in Range(generators) : find(text, Placeholder(key)) = -1
    /\ "{" \notin Range(text)
    /\ Len(entities) = Cardinality(MarkersIn(template))
    /\ { entities[n].label : n \in DOMAIN entities } = MarkersIn(template)

C8_Witness ==
  /\ pc = "return"
  /\ Len(entities) = 3
  /\ TemplatePos(K_PERSON_NAME) = 0

\* C9 as stated: a recorded span starts where its value lies in the final
\* pre-noise text exactly when every entity placed to its left in the
\* template and substituted after it has a value as long as its placeholder.
C9_EachSameLength ==
  Substituted =>
    \A n \in DOMAIN entities :
      LET x == entities[n].label
      IN  (entities[n].start = TruePos(x))
            <=> (\A y \in LeftLater(x) : Delta(y) = 0)

\* C9 amended: the value of entity X lies at TruePos(X) in the final
\* pre-noise text, and the recorded start is TruePos(X) minus the sum of
\* len(value) - len(placeholder) over the entities placed to the left of X
\* and substituted after X; so the span matches exactly when that sum is 0,
\* and every span is correct when the order is the template's left to right.
C9_ShiftIsSum ==
  Substituted =>
    \A n \in DOMAIN entities :
      LET x == entities[n].label
      IN  /\ Slice(text, TruePos(x), TruePos(x) + Len(replacements[x]))
               = replacements[x]
          /\ entities[n].end = entities[n].start + Len(replacements[x])
          /\ entities[n].start = TruePos(x) - SumDelta(LeftLater(x))
          /\ (entities[n].start = TruePos(x)) <=> (SumDelta(LeftLater(x)) = 0)
          /\ (\A m \in DOMAIN entities : LeftLater(entities[m].label) = {})
               => SpanCorrect(entities[n])

\* two entities to the left, substituted later, whose length changes cancel
C9_Witness ==
  /\ Substituted
  /\ \E n \in DOMAIN entities :
       LET x == entities[n].label
       IN  /\ Cardinality(LeftLater(x)) = 2
           /\ \A y \in LeftLater(x) : Delta(y) # 0
           /\ SumDelta(LeftLater(x)) = 0

NoPunctuation(s) == "." \notin Range(s) /\ "," \notin Range(s)

\* no template and no value a generator can return holds "." or ","
VocabularyHasNoPunctuation ==
  /\ \A n \in DOMAIN templates : NoPunctuation(templates[n])
  /\ \A key \in Range(generators) :
       \A s \in RngStates : NoPunctuation(CallGenerator(key, s).value)

\* C10: the substituted text holds neither "." nor ",", and the noise step
\* leaves the text as it was, whichever of its coins fall.
C10_NoiseLeavesText ==
  /\ [](VocabularyHasNoPunctuation)
  /\ [][Substituted => (NoPunctuation(text) /\ text' = text)]_vars

\* both coins of the noise step are about to fall
C10_Witness ==
  /\ Substituted
  /\ random(rng) < 3
  /\ random(NextRng(rng)) < 2

=============================================================================
